---- MODULE Spec2Model ----
(***************************************************************************)
(* Auth0 organization monitor (src/get_organizations.py).                  *)
(*                                                                         *)
(* The poll loop fetches the organization listing, compares it with the    *)
(* listing persisted in previous_orgs.json, notifies Slack about every     *)
(* organization that is new, and overwrites the file with the listing.     *)
(* Time is counted in whole seconds.  The snapshot file is modelled by its *)
(* content, a sequence of JSON tokens, so that saving and loading are a    *)
(* real serialisation and a real parse.                                    *)
(***************************************************************************)
EXTENDS Integers, Sequences, FiniteSets, TLC

\* ------------------------------------------------------------------------
\* Bounds of the model
\* ------------------------------------------------------------------------
StartTime == 60
Horizon == 300
MaxTime == StartTime + Horizon
MaxPureLen == 2
MaxPureMembers == 2

\* ------------------------------------------------------------------------
\* Program constants
\* ------------------------------------------------------------------------
SHORT_SLEEP == 60
LONG_SLEEP == 300
DEFAULT_EXPIRES_IN == 3600
NoExpiry == 0
NoToken == ""

\* ------------------------------------------------------------------------
\* Data of the environment
\* ------------------------------------------------------------------------
\* Organization records as the identity provider lists them.  OrgA and
\* OrgA2 are the same organization (same id) before and after a rename.
\* The poll loop runs against a provider that knows OrgA and OrgB; all four
\* records are used where the pure functions run on their own.
OrgA == [id |-> "org_A", name |-> "acme", display_name |-> "Acme"]
OrgA2 == [id |-> "org_A", name |-> "acme-inc", display_name |-> "Acme Inc"]
OrgB == [id |-> "org_B", name |-> "beta", display_name |-> "Beta"]
OrgC == [id |-> "org_C", name |-> "gamma", display_name |-> "Gamma"]
OrgRecords == {OrgA, OrgB}
AllOrgRecords == {OrgA, OrgA2, OrgB, OrgC}

\* Member records of the identity provider; user_id is "<provider>|<id>",
\* kept as its list of "|"-separated segments.
MemberGh == [user_id |-> <<"github", "1">>, name |-> "Ann", email |-> "ann@x"]
MemberDb == [user_id |-> <<"auth0", "2">>, name |-> "Bob", email |-> "bob@x"]
MemberRecords == {MemberGh, MemberDb}

\* A second GitHub member, for the enricher run on its own.
MemberGh2 == [user_id |-> <<"github", "7">>, name |-> "Cy", email |-> "cy@x"]
AllMemberRecords == {MemberGh, MemberDb, MemberGh2}

\* Values of expires_in in a token response (<<>>: the field is absent).
ExpiresInValues == {<<>>, <<200>>}
AccessTokens == {"tok1", "tok2"}

\* Time that may pass between two statements of the loop (request latency).
Latencies == {60}

RECURSIVE SeqsUpTo(_, _)
SeqsUpTo(S, n) ==
    IF n = 0 THEN {<<>>}
    ELSE LET shorter == SeqsUpTo(S, n - 1)
         IN  shorter \cup {Append(s, x) : s \in shorter, x \in S}

Ids(orgs) == {orgs[i].id : i \in 1..Len(orgs)}

UniqueIds(orgs) == \A i, j \in 1..Len(orgs) : orgs[i].id = orgs[j].id => i = j

\* Listings the provider can answer with: any of its organizations in any
\* order, each id once.
Listings == {l \in SeqsUpTo(OrgRecords, Cardinality(OrgRecords)) : UniqueIds(l)}

\* Member listings the poll loop meets: no member or one member.  Longer
\* listings are run through the enricher on its own.
MemberListings == {<<>>} \cup {<<m>> : m \in MemberRecords}

\* ------------------------------------------------------------------------
\* Token cache: get_auth0_token
\* ------------------------------------------------------------------------
\* A token response: ok = FALSE is a network error or a non-2xx status.
TokenResponses ==
    {[ok |-> FALSE, access_token |-> NoToken, expires_in |-> <<>>]}
    \cup [ok : {TRUE}, access_token : AccessTokens, expires_in : ExpiresInValues]

\* The provider issues a new token at every exchange.
FreshTokenResponses(cached) ==
    {resp \in TokenResponses : ~resp.ok \/ resp.access_token # cached}

\* The answers a call at time t can meet: the token endpoint is asked only
\* when the cache does not serve the call.
ExchangeResponses(t, cached, expiry) ==
    IF cached # NoToken /\ expiry # NoExpiry /\ t < expiry
    THEN {[ok |-> FALSE, access_token |-> NoToken, expires_in |-> <<>>]}
    ELSE FreshTokenResponses(cached)

ExpiresIn(resp) ==
    IF resp.expires_in = <<>> THEN DEFAULT_EXPIRES_IN ELSE resp.expires_in[1]

\* token_expiry = now + expires_in * 0.9
ExpiryFor(t, resp) == t + (ExpiresIn(resp) * 9) \div 10

\* Variant: a token is still handed out at the very second it expires.
CacheValid_inclusive(t, cached, expiry) ==
    cached # NoToken /\ expiry # NoExpiry /\ t <= expiry

CacheValid(t, cached, expiry) ==
    cached # NoToken /\ expiry # NoExpiry /\ t < expiry

\* Variant: a failed exchange empties the cache.
get_auth0_token_forgetting(t, cached, expiry, resp) ==
    IF CacheValid(t, cached, expiry)
    THEN [ret |-> cached, cached_token |-> cached, token_expiry |-> expiry,
          exchanges |-> 0]
    ELSE IF resp.ok
    THEN [ret |-> resp.access_token, cached_token |-> resp.access_token,
          token_expiry |-> ExpiryFor(t, resp), exchanges |-> 1]
    ELSE [ret |-> NoToken, cached_token |-> NoToken, token_expiry |-> NoExpiry,
          exchanges |-> 1]

\* Variant: the cache is never consulted, every call exchanges.
get_auth0_token_uncached(t, cached, expiry, resp) ==
    IF resp.ok
    THEN [ret |-> resp.access_token, cached_token |-> resp.access_token,
          token_expiry |-> ExpiryFor(t, resp), exchanges |-> 1]
    ELSE [ret |-> NoToken, cached_token |-> cached, token_expiry |-> expiry,
          exchanges |-> 1]

\* The result of one call: the value returned, the cache afterwards, and
\* the number of token exchanges the call performed.
get_auth0_token(t, cached, expiry, resp) ==
    IF CacheValid(t, cached, expiry)
    THEN [ret |-> cached, cached_token |-> cached, token_expiry |-> expiry,
          exchanges |-> 0]
    ELSE IF resp.ok
    THEN [ret |-> resp.access_token, cached_token |-> resp.access_token,
          token_expiry |-> ExpiryFor(t, resp), exchanges |-> 1]
    ELSE [ret |-> NoToken, cached_token |-> cached, token_expiry |-> expiry,
          exchanges |-> 1]

\* ------------------------------------------------------------------------
\* Snapshot file: save_previous_orgs / load_previous_orgs
\* ------------------------------------------------------------------------
Absent == <<"<absent>">>
Truncated == <<>>

\* json.dump of one organization object and of the array of them.
DumpOrg(o) ==
    <<"{", "id", o.id, "name", o.name, "display_name", o.display_name, "}">>

RECURSIVE DumpOrgs(_)
DumpOrgs(orgs) ==
    IF orgs = <<>> THEN <<>> ELSE DumpOrg(Head(orgs)) \o DumpOrgs(Tail(orgs))

JsonDump(orgs) == <<"[">> \o DumpOrgs(orgs) \o <<"]">>

ObjLen == Len(DumpOrg(OrgA))

IsObj(toks) ==
    /\ Len(toks) = ObjLen
    /\ toks[1] = "{" /\ toks[2] = "id" /\ toks[4] = "name"
    /\ toks[6] = "display_name" /\ toks[8] = "}"

LoadObj(toks) == [id |-> toks[3], name |-> toks[5], display_name |-> toks[7]]

\* The objects of an array body; ok = FALSE is a JSONDecodeError.
RECURSIVE LoadObjs(_)
LoadObjs(toks) ==
    IF toks = <<>> THEN [ok |-> TRUE, value |-> <<>>]
    ELSE IF Len(toks) < ObjLen \/ ~IsObj(SubSeq(toks, 1, ObjLen))
    THEN [ok |-> FALSE, value |-> <<>>]
    ELSE LET rest == LoadObjs(SubSeq(toks, ObjLen + 1, Len(toks)))
         IN  IF ~rest.ok THEN rest
             ELSE [ok |-> TRUE,
                   value |-> <<LoadObj(SubSeq(toks, 1, ObjLen))>> \o rest.value]

\* json.load of the file content.
JsonLoad(toks) ==
    IF Len(toks) < 2 \/ toks[1] # "[" \/ toks[Len(toks)] # "]"
    THEN [ok |-> FALSE, value |-> <<>>]
    ELSE LoadObjs(SubSeq(toks, 2, Len(toks) - 1))

\* The listing a file content stands for (empty when absent or malformed).
Snapshot(content) ==
    IF content = Absent THEN <<>> ELSE JsonLoad(content).value

\* Variant: the listing is merged into the former snapshot.
save_previous_orgs_merging(content, orgs) ==
    LET former == JsonLoad(content).value
        Gone(o) == o.id \notin Ids(orgs)
    IN  JsonDump(SelectSeq(former, Gone) \o orgs)

\* Variant: the file is opened with mode 'a'.
save_previous_orgs_appending(content, orgs) ==
    IF content = Absent THEN JsonDump(orgs) ELSE content \o JsonDump(orgs)

\* The content of the file after a save that ran to completion: the file is
\* opened with mode 'w', so what it held before does not matter.
save_previous_orgs(content, orgs) == JsonDump(orgs)

\* Variant: the file is never found.
load_previous_orgs_never_found(content) == [raised |-> FALSE, value |-> <<>>]

\* Variant: a file that cannot be parsed counts as an empty snapshot.
load_previous_orgs_defaulting(content) ==
    [raised |-> FALSE, value |-> Snapshot(content)]

\* What load returns, or that it raised (malformed content).
load_previous_orgs(content) ==
    IF content = Absent THEN [raised |-> FALSE, value |-> <<>>]
    ELSE LET r == JsonLoad(content)
         IN  [raised |-> ~r.ok, value |-> r.value]

\* ------------------------------------------------------------------------
\* Diff engine: find_new_organizations
\* ------------------------------------------------------------------------
RECURSIVE Filter(_, _)
Filter(orgs, previous_ids) ==
    IF orgs = <<>> THEN <<>>
    ELSE IF Head(orgs).id \notin previous_ids
         THEN <<Head(orgs)>> \o Filter(Tail(orgs), previous_ids)
         ELSE Filter(Tail(orgs), previous_ids)

\* Variant: the snapshot is not consulted, every listed organization is new.
find_new_organizations_all(current, previous) == current

\* Variant: whole records are compared instead of ids.
find_new_organizations_by_record(current, previous) ==
    LET Unseen(o) == \A i \in 1..Len(previous) : previous[i] # o
    IN  SelectSeq(current, Unseen)

find_new_organizations(current, previous) == Filter(current, Ids(previous))

\* ------------------------------------------------------------------------
\* Organization listing: get_organizations
\* ------------------------------------------------------------------------
\* Answers of an HTTP endpoint: a network error, an error status, or 200.
ListingResponses ==
    {[status |-> "neterr", body |-> <<>>], [status |-> "500", body |-> <<>>]}
    \cup [status : {"200"}, body : Listings]

\* What the provider answers to a request that bears no usable token.
Unauthorized == [status |-> "401", body |-> <<>>]

\* requests.get raises on a network error, raise_for_status on an error status.
get_organizations(resp) ==
    [raised |-> resp.status # "200", value |-> resp.body]

\* ------------------------------------------------------------------------
\* Member enricher: get_github_user_info / get_organization_members
\* ------------------------------------------------------------------------
NoUrl == ""

\* html_url of the public profile of a GitHub user id.
HtmlUrl(github_id) == IF github_id = "1" THEN "https://github.com/ann"
                      ELSE "https://github.com/other"

LookupResponses == {"200", "404", "neterr"}

\* Variant: the status of the lookup is not tested.
get_github_user_info_unchecked(github_id, resp) == HtmlUrl(github_id)

\* The profile url, or NoUrl where the function returns None.
get_github_user_info(github_id, resp) ==
    IF resp = "200" THEN HtmlUrl(github_id) ELSE NoUrl

HasGithubMarker(user_id) == \E i \in 1..Len(user_id) : user_id[i] = "github"

GithubId(user_id) ==
    IF HasGithubMarker(user_id) THEN user_id[Len(user_id)] ELSE ""

EnrichMember(member, resp) ==
    [name |-> member.name, email |-> member.email,
     github_url |-> IF GithubId(member.user_id) # ""
                    THEN get_github_user_info(GithubId(member.user_id), resp)
                    ELSE NoUrl]

\* The answers of the lookups made for a member listing; "none" where no
\* lookup is made (no github_id).
LookupsFor(body) ==
    {l \in [1..Len(body) -> LookupResponses \cup {"none"}] :
        \A i \in 1..Len(body) :
            (l[i] = "none") <=> (GithubId(body[i].user_id) = "")}

MemberResponses ==
    {[status |-> "neterr", body |-> <<>>], [status |-> "500", body |-> <<>>]}
    \cup [status : {"200"}, body : MemberListings]

\* Variant: an error status of the member listing is raised to the caller.
get_organization_members_raising(resp, lookups) ==
    IF resp.status = "200"
    THEN [raised |-> FALSE,
          value |-> [i \in 1..Len(resp.body) |->
                        EnrichMember(resp.body[i], lookups[i])]]
    ELSE [raised |-> TRUE, value |-> <<>>]

\* lookups[i] is the answer of the profile lookup made for the i-th member.
\* The function catches every exception, so raised is always FALSE.
get_organization_members(resp, lookups) ==
    IF resp.status = "200"
    THEN [raised |-> FALSE,
          value |-> [i \in 1..Len(resp.body) |->
                        EnrichMember(resp.body[i], lookups[i])]]
    ELSE [raised |-> FALSE, value |-> <<>>]

\* ------------------------------------------------------------------------
\* Notifier: format_slack_message / send_slack_message
\* ------------------------------------------------------------------------
NoMembersLine == [kind |-> "text", text |-> "No members found"]

\* Variant: the link is rendered whether or not there is a url.
MemberLine_linking(m) ==
    [kind |-> "member", name |-> m.name, email |-> m.email,
     link |-> <<" (<", m.github_url, "|GitHub>)">>]

MemberLine(m) ==
    [kind |-> "member", name |-> m.name, email |-> m.email,
     link |-> IF m.github_url # NoUrl
              THEN <<" (<", m.github_url, "|GitHub>)">> ELSE <<>>]

\* The lines of the message, joined by newlines in the code.
format_slack_message(org, mems, t) ==
    << [kind |-> "text", text |-> "*New Organization Found!*"],
       [kind |-> "name", text |-> org.name],
       [kind |-> "display_name", text |-> org.display_name],
       [kind |-> "id", text |-> org.id],
       [kind |-> "time", at |-> t],
       [kind |-> "text", text |-> "*Members:*"] >>
    \o (IF mems # <<>> THEN [i \in 1..Len(mems) |-> MemberLine(mems[i])]
        ELSE <<NoMembersLine>>)

WebhookResponses == {"200", "500", "neterr"}

\* What a reader of the message finds in it.
MessageId(text) ==
    LET i == CHOOSE k \in 1..Len(text) : text[k].kind = "id"
    IN  text[i].text

HasNoMembersLine(text) ==
    \E i \in 1..Len(text) : text[i] = NoMembersLine

MemberLines(text) ==
    Cardinality({i \in 1..Len(text) : text[i].kind = "member"})

\* Variant: the test of SLACK_WEBHOOK_URL is missing.
send_slack_message_posts_always(url_set, resp) ==
    [posted |-> TRUE, delivered |-> resp = "200"]

\* Whether a request was posted and whether it was delivered; never raises.
send_slack_message(url_set, resp) ==
    [posted |-> url_set, delivered |-> url_set /\ resp = "200"]

\* ------------------------------------------------------------------------
\* State
\* ------------------------------------------------------------------------
VARIABLES
    pc,              \* position of the poll loop
    now,             \* wall clock, in seconds
    cached_token,    \* global cached_token (NoToken for None)
    token_expiry,    \* global token_expiry (NoExpiry for None)
    file,            \* content of previous_orgs.json, or Absent
    webhook_set,     \* whether SLACK_WEBHOOK_URL is configured
    current_orgs,    \* poll_organizations: current_orgs
    previous_orgs,   \* poll_organizations: previous_orgs
    new_orgs,        \* poll_organizations: new_orgs
    idx,             \* position of the for loop in new_orgs
    members,         \* print_organization_details: members
    token_call,      \* history: the get_auth0_token call of the last step
    fetched,         \* history: ids whose members were requested this cycle
    sent,            \* history: what was handed to send this cycle
    message,         \* history: the message handed to send by the last step
    faults,          \* history: failures that happened this cycle
    member_status,   \* history: status of the member listing of this organization
    file_at_start,   \* history: content of the file when the cycle started
    slept,           \* history: length of the last sleep
    run,             \* history: what was listed and notified in the whole run
    response,        \* the last answer of the liveness endpoint
    pure_in          \* input of a function that is run on its own

vars == <<pc, now, cached_token, token_expiry, file, webhook_set, current_orgs,
          previous_orgs, new_orgs, idx, members, token_call, fetched, sent,
          message, faults, member_status, file_at_start, slept, run, response,
          pure_in>>

\* What the poll loop never touches.
aside == <<response, pure_in>>

locals == <<current_orgs, previous_orgs, new_orgs, idx, members>>

history == <<fetched, sent, message, faults, member_status, file_at_start>>

NoCall == [made |-> FALSE, at |-> 0, cached_before |-> NoToken,
           expiry_before |-> NoExpiry, ret |-> NoToken, exchanges |-> 0]

RecordCall(r) ==
    [made |-> TRUE, at |-> now, cached_before |-> cached_token,
     expiry_before |-> token_expiry, ret |-> r.ret, exchanges |-> r.exchanges]

\* The run so far: whether every cycle ended without an uncaught error and
\* every listing held all ids listed before it, the ids listed, the ids
\* notified, and whether an id was notified a second time.  A run that is
\* not clean any more is not followed further.
NewRun == [clean |-> TRUE, listed |-> {}, notified |-> {}, twice |-> FALSE]

VoidRun == [clean |-> FALSE, listed |-> {}, notified |-> {}, twice |-> FALSE]

\* The run after a cycle that listed these ids.
RunListed(r, ids) ==
    IF r.clean /\ r.listed \subseteq ids
    THEN [r EXCEPT !.listed = ids]
    ELSE VoidRun

\* The run after a notification for this id was handed to send.
RunNotified(r, id) ==
    IF r.clean
    THEN [r EXCEPT !.notified = @ \cup {id}, !.twice = @ \/ id \in r.notified]
    ELSE r

NoResponse == ""

NoInput == <<>>

\* Files a run can find at start-up: none, the listing a former run saved,
\* or one that is no JSON document.
Malformed == <<"[", "{">>

InitFiles == {Absent, JsonDump(<<OrgA>>), Malformed}

Init ==
    /\ pc = "fetch"
    /\ now = StartTime
    /\ cached_token = NoToken
    /\ token_expiry = NoExpiry
    /\ file \in InitFiles
    /\ webhook_set \in BOOLEAN
    /\ current_orgs = <<>>
    /\ previous_orgs = <<>>
    /\ new_orgs = <<>>
    /\ idx = 1
    /\ members = <<>>
    /\ token_call = NoCall
    /\ fetched = <<>>
    /\ sent = <<>>
    /\ message = <<>>
    /\ faults = {}
    /\ member_status = "none"
    /\ file_at_start = file
    /\ slept = 0
    /\ run = NewRun
    /\ response = NoResponse
    /\ pure_in = NoInput

\* ------------------------------------------------------------------------
\* The poll loop: poll_organizations
\* ------------------------------------------------------------------------
\* current_orgs = get_organizations(), with the token call it makes.
GetOrganizations ==
    /\ pc = "fetch"
    /\ \E tr \in ExchangeResponses(now, cached_token, token_expiry),
          lr \in ListingResponses :
         LET t == get_auth0_token(now, cached_token, token_expiry, tr)
             resp == IF t.ret = NoToken THEN Unauthorized ELSE lr
             r == get_organizations(resp)
         IN  /\ cached_token' = t.cached_token
             /\ token_expiry' = t.token_expiry
             /\ token_call' = RecordCall(t)
             /\ faults' = faults
                    \cup (IF t.ret = NoToken THEN {"token"} ELSE {})
                    \cup (IF r.raised THEN {"listing"} ELSE {})
             /\ IF r.raised
                THEN /\ pc' = "error"
                     /\ run' = VoidRun
                     /\ UNCHANGED current_orgs
                ELSE /\ pc' = "load"
                     /\ run' = RunListed(run, {r.value[i].id : i \in 1..Len(r.value)})
                     /\ current_orgs' = r.value
    /\ UNCHANGED <<now, file, webhook_set, previous_orgs, new_orgs, idx,
                   members, fetched, sent, message, member_status,
                   file_at_start, slept, aside>>

\* previous_orgs = load_previous_orgs()
LoadPreviousOrgs ==
    /\ pc = "load"
    /\ LET r == load_previous_orgs(file)
       IN  IF r.raised
           THEN /\ pc' = "error"
                /\ faults' = faults \cup {"load"}
                /\ run' = VoidRun
                /\ UNCHANGED previous_orgs
           ELSE /\ pc' = "diff"
                /\ previous_orgs' = r.value
                /\ UNCHANGED <<faults, run>>
    /\ token_call' = NoCall
    /\ UNCHANGED <<now, cached_token, token_expiry, file, webhook_set,
                   current_orgs, new_orgs, idx, members, fetched, sent,
                   message, member_status, file_at_start, slept, aside>>

\* new_orgs = find_new_organizations(current_orgs, previous_orgs), and the
\* test that decides whether the for loop runs.
FindNewOrganizations ==
    /\ pc = "diff"
    /\ new_orgs' = find_new_organizations(current_orgs, previous_orgs)
    /\ idx' = 1
    /\ pc' = IF new_orgs' # <<>> THEN "enrich" ELSE "save"
    /\ UNCHANGED <<now, cached_token, token_expiry, file, webhook_set,
                   current_orgs, previous_orgs, members, token_call, history,
                   slept, run, aside>>

\* Variant: the for loop stops after its first organization.
AfterOrg_first_only(i, orgs) == "save"

\* Where the loop goes after the organization at position i.
AfterOrg(i, orgs) == IF i < Len(orgs) THEN "enrich" ELSE "save"

\* print_organization_details, first half: the token and the members.
EnrichMembers ==
    /\ pc = "enrich"
    /\ \E tr \in ExchangeResponses(now, cached_token, token_expiry),
          mr \in MemberResponses :
       \E lookups \in LookupsFor(mr.body) :
         LET t == get_auth0_token(now, cached_token, token_expiry, tr)
             resp == IF t.ret = NoToken THEN Unauthorized ELSE mr
             r == get_organization_members(resp, lookups)
         IN  /\ cached_token' = t.cached_token
             /\ token_expiry' = t.token_expiry
             /\ token_call' = RecordCall(t)
             /\ fetched' = Append(fetched, new_orgs[idx].id)
             /\ member_status' = resp.status
             /\ message' = <<>>
             /\ faults' = faults
                    \cup (IF t.ret = NoToken THEN {"token"} ELSE {})
                    \cup (IF resp.status # "200" THEN {"members"} ELSE {})
                    \cup (IF \E i \in 1..Len(resp.body) :
                                /\ GithubId(resp.body[i].user_id) # ""
                                /\ lookups[i] # "200"
                          THEN {"lookup"} ELSE {})
             /\ IF r.raised
                THEN /\ pc' = AfterOrg(idx, new_orgs)
                     /\ idx' = idx + 1
                     /\ UNCHANGED members
                ELSE /\ pc' = "notify"
                     /\ members' = r.value
                     /\ UNCHANGED idx
    /\ UNCHANGED <<now, file, webhook_set, current_orgs, previous_orgs,
                   new_orgs, sent, file_at_start, slept, run, aside>>

\* print_organization_details, second half: format the message and send it.
Notify ==
    /\ pc = "notify"
    /\ \E wr \in WebhookResponses :
         LET text == format_slack_message(new_orgs[idx], members, now)
             r == send_slack_message(webhook_set, wr)
         IN  /\ message' = text
             /\ sent' = Append(sent, [id |-> MessageId(text),
                                      posted |-> r.posted,
                                      delivered |-> r.delivered])
             /\ faults' = faults
                    \cup (IF ~r.delivered THEN {"webhook"} ELSE {})
    /\ pc' = AfterOrg(idx, new_orgs)
    /\ idx' = idx + 1
    /\ members' = <<>>
    /\ token_call' = NoCall
    /\ run' = RunNotified(run, new_orgs[idx].id)
    /\ UNCHANGED <<now, cached_token, token_expiry, file, webhook_set,
                   current_orgs, previous_orgs, new_orgs, fetched,
                   member_status, file_at_start, slept, aside>>

\* save_previous_orgs(current_orgs): open(..., 'w') empties the file, then
\* json.dump writes it.  The open can fail, and so can the write after it.
SaveOutcomes == {"ok", "open_fails", "write_fails"}

SavePreviousOrgs ==
    /\ pc = "save"
    /\ \E out \in SaveOutcomes :
         /\ file' = CASE out = "ok" -> save_previous_orgs(file, current_orgs)
                      [] out = "open_fails" -> file
                      [] out = "write_fails" -> Truncated
         /\ pc' = IF out = "ok" THEN "sleep" ELSE "error"
         /\ faults' = faults \cup (IF out = "ok" THEN {} ELSE {"save"})
         /\ run' = IF out = "ok" THEN run ELSE VoidRun
    /\ message' = <<>>
    /\ member_status' = "none"
    /\ UNCHANGED <<now, cached_token, token_expiry, webhook_set, locals,
                   token_call, fetched, sent, file_at_start, slept, aside>>

\* The locals are not bound and the history of the cycle is empty.
Forget ==
    /\ current_orgs' = <<>>
    /\ previous_orgs' = <<>>
    /\ new_orgs' = <<>>
    /\ idx' = 1
    /\ members' = <<>>
    /\ fetched' = <<>>
    /\ sent' = <<>>
    /\ message' = <<>>
    /\ faults' = {}
    /\ member_status' = "none"
    /\ file_at_start' = file
    /\ token_call' = NoCall

\* The next cycle starts.
NewCycle ==
    /\ pc' = "fetch"
    /\ Forget

\* Variant: the next cycle starts without the sleep.
SleepShort_missing ==
    /\ pc = "sleep"
    /\ NewCycle
    /\ UNCHANGED <<now, cached_token, token_expiry, file, webhook_set, slept,
                   run, aside>>

\* time.sleep(60) at the end of a cycle that raised nothing.
SleepShort ==
    /\ pc = "sleep"
    /\ now + SHORT_SLEEP <= MaxTime
    /\ now' = now + SHORT_SLEEP
    /\ slept' = SHORT_SLEEP
    /\ NewCycle
    /\ UNCHANGED <<cached_token, token_expiry, file, webhook_set, run, aside>>

\* Variant: the handler re-raises instead of sleeping.
SleepLong_reraising ==
    /\ pc = "error"
    /\ pc' = "crashed"
    /\ Forget
    /\ UNCHANGED <<now, cached_token, token_expiry, file, webhook_set, slept,
                   run, aside>>

\* except Exception: time.sleep(5 * 60)
SleepLong ==
    /\ pc = "error"
    /\ now + LONG_SLEEP <= MaxTime
    /\ now' = now + LONG_SLEEP
    /\ slept' = LONG_SLEEP
    /\ NewCycle
    /\ UNCHANGED <<cached_token, token_expiry, file, webhook_set, run, aside>>

TryBody == {"fetch", "load", "diff", "enrich", "notify", "save", "sleep"}

\* KeyboardInterrupt: caught by the loop when raised inside the try body;
\* raised inside the except handler (the long sleep) it leaves the function.
\* Either way poll_organizations is over and its locals are gone.
Interrupt ==
    /\ pc \in TryBody \cup {"error"}
    /\ pc' = IF pc \in TryBody THEN "stopped" ELSE "interrupt_raised"
    /\ Forget
    /\ UNCHANGED <<now, cached_token, token_expiry, file, webhook_set, slept,
                   run, aside>>

\* Time passes while the loop waits for the listing to arrive.
Elapse ==
    /\ pc = "load"
    /\ \E d \in Latencies :
         /\ now + d <= MaxTime
         /\ now' = now + d
    /\ UNCHANGED <<pc, cached_token, token_expiry, file, webhook_set, locals,
                   token_call, history, slept, run, aside>>

\* Variant: the route reports whether the poll loop is alive.
index_reporting ==
    IF pc \in {"stopped", "interrupt_raised"}
    THEN "Auth0 Organization Monitor is down"
    ELSE "Auth0 Organization Monitor is running"

\* The text the liveness route answers with.
index == "Auth0 Organization Monitor is running"

\* GET / on the foreground server, while the poll thread is anywhere.
Index ==
    /\ response' = index
    /\ UNCHANGED <<pc, now, cached_token, token_expiry, file, webhook_set,
                   locals, token_call, history, slept, run, pure_in>>

Next ==
    \/ GetOrganizations
    \/ LoadPreviousOrgs
    \/ FindNewOrganizations
    \/ EnrichMembers
    \/ Notify
    \/ SavePreviousOrgs
    \/ SleepShort
    \/ SleepLong
    \/ Interrupt
    \/ Elapse
    \/ Index

Spec == Init /\ [][Next]_vars

\* The statements of the poll thread.  The thread is never starved: a
\* statement that can run does run, each request and each sleep returns.
\* Interruptions and liveness requests come from outside and may never come.
LoopStep ==
    \/ GetOrganizations
    \/ LoadPreviousOrgs
    \/ FindNewOrganizations
    \/ EnrichMembers
    \/ Notify
    \/ SavePreviousOrgs
    \/ SleepShort
    \/ SleepLong

SpecLive == Init /\ [][Next]_vars /\ WF_vars(LoopStep)

\* ------------------------------------------------------------------------
\* The pure functions on their own: find_new_organizations on any two
\* sequences of records (duplicates and renamed records included), then a
\* save of the first sequence over any former file content, then a load.
\* ------------------------------------------------------------------------
PureInputs == SeqsUpTo(AllOrgRecords, MaxPureLen)

PureFiles == {Absent, Truncated, JsonDump(<<OrgB>>), Malformed}

PureInit ==
    /\ pc = "pure"
    /\ current_orgs \in PureInputs
    /\ previous_orgs \in PureInputs
    /\ file \in PureFiles
    /\ file_at_start = file
    /\ now = StartTime
    /\ cached_token = NoToken
    /\ token_expiry = NoExpiry
    /\ webhook_set = FALSE
    /\ new_orgs = <<>>
    /\ idx = 1
    /\ members = <<>>
    /\ token_call = NoCall
    /\ fetched = <<>>
    /\ sent = <<>>
    /\ message = <<>>
    /\ faults = {}
    /\ member_status = "none"
    /\ slept = 0
    /\ run = NewRun
    /\ response = NoResponse
    /\ pure_in = NoInput

PureFindNew ==
    /\ pc = "pure"
    /\ new_orgs' = find_new_organizations(current_orgs, previous_orgs)
    /\ pc' = "pure_diffed"
    /\ UNCHANGED <<now, cached_token, token_expiry, file, webhook_set,
                   current_orgs, previous_orgs, idx, members, token_call,
                   history, slept, run, aside>>

PureSave ==
    /\ pc = "pure_diffed"
    /\ file' = save_previous_orgs(file, current_orgs)
    /\ pc' = "pure_saved"
    /\ UNCHANGED <<now, cached_token, token_expiry, webhook_set, locals,
                   token_call, history, slept, run, aside>>

PureLoad ==
    /\ pc = "pure_saved"
    /\ LET r == load_previous_orgs(file)
       IN  /\ pc' = IF r.raised THEN "pure_load_raised" ELSE "pure_loaded"
           /\ previous_orgs' = r.value
    /\ UNCHANGED <<now, cached_token, token_expiry, file, webhook_set,
                   current_orgs, new_orgs, idx, members, token_call, history,
                   slept, run, aside>>

PureNext == PureFindNew \/ PureSave \/ PureLoad

SpecPure == PureInit /\ [][PureNext]_vars

\* ------------------------------------------------------------------------
\* The enricher and the formatter on their own: get_organization_members on
\* any answer of the member listing with any answers of the profile
\* lookups, then format_slack_message on what it returned.
\* ------------------------------------------------------------------------
PureMemberResponses ==
    {[status |-> "neterr", body |-> <<>>], [status |-> "500", body |-> <<>>]}
    \cup [status : {"200"}, body : SeqsUpTo(AllMemberRecords, MaxPureMembers)]

MembersInit ==
    /\ pc = "pure_members"
    /\ \E mr \in PureMemberResponses, org \in OrgRecords :
       \E lookups \in LookupsFor(mr.body) :
         pure_in = [resp |-> mr, lookups |-> lookups, org |-> org]
    /\ now = StartTime
    /\ cached_token = NoToken
    /\ token_expiry = NoExpiry
    /\ file = Absent
    /\ file_at_start = file
    /\ webhook_set = FALSE
    /\ current_orgs = <<>>
    /\ previous_orgs = <<>>
    /\ new_orgs = <<>>
    /\ idx = 1
    /\ members = <<>>
    /\ token_call = NoCall
    /\ fetched = <<>>
    /\ sent = <<>>
    /\ message = <<>>
    /\ faults = {}
    /\ member_status = "none"
    /\ slept = 0
    /\ run = NewRun
    /\ response = NoResponse

PureEnrich ==
    /\ pc = "pure_members"
    /\ LET r == get_organization_members(pure_in.resp, pure_in.lookups)
       IN  /\ pc' = IF r.raised THEN "pure_members_raised" ELSE "pure_enriched"
           /\ members' = r.value
    /\ UNCHANGED <<now, cached_token, token_expiry, file, webhook_set,
                   current_orgs, previous_orgs, new_orgs, idx, token_call,
                   history, slept, run, aside>>

PureFormat ==
    /\ pc = "pure_enriched"
    /\ message' = format_slack_message(pure_in.org, members, now)
    /\ pc' = "pure_formatted"
    /\ UNCHANGED <<now, cached_token, token_expiry, file, webhook_set, locals,
                   token_call, fetched, sent, faults, member_status,
                   file_at_start, slept, run, aside>>

MembersNext == PureEnrich \/ PureFormat

SpecMembers == MembersInit /\ [][MembersNext]_vars

\* ------------------------------------------------------------------------
\* Properties
\* ------------------------------------------------------------------------
IdsOf(entries) == [i \in 1..Len(entries) |-> entries[i].id]

\* C1: after a cycle that raised nothing, the persisted snapshot is the full
\* listing fetched in that cycle, element by element and in listing order.
C1_SnapshotIsFullListing ==
    pc = "sleep" => /\ file # Absent
                    /\ JsonLoad(file).ok
                    /\ JsonLoad(file).value = current_orgs

\* A cycle ended well whose listing is more than its new organizations.
C1_Witness ==
    /\ pc = "sleep"
    /\ new_orgs # <<>>
    /\ new_orgs # current_orgs
    /\ Snapshot(file) = current_orgs

\* C2: a cycle that ends in the except handler leaves the snapshot file as
\* it was when the cycle started.
C2_SnapshotUntouchedOnError ==
    pc = "error" => file = file_at_start

\* C3 (as claimed): an organization the snapshot has advanced to contain in
\* this cycle has had its notification delivered to the webhook.
C3_DeliveredOrNotAdvanced ==
    \A id \in Ids(Snapshot(file)) \ Ids(Snapshot(file_at_start)) :
        \E k \in 1..Len(sent) : sent[k].id = id /\ sent[k].delivered

\* C3 (amended): an organization the snapshot has advanced to contain in
\* this cycle has had its notification handed to send in this cycle.
C3_AttemptedOrNotAdvanced ==
    \A id \in Ids(Snapshot(file)) \ Ids(Snapshot(file_at_start)) :
        \E k \in 1..Len(sent) : sent[k].id = id

\* The snapshot advanced over an organization whose notification was handed
\* to send and not delivered.
C3_Witness ==
    /\ pc = "sleep"
    /\ \E k \in 1..Len(sent) :
         /\ ~sent[k].delivered
         /\ sent[k].id \in Ids(Snapshot(file)) \ Ids(Snapshot(file_at_start))

\* C4: in a cycle where every call succeeds, members are fetched and one
\* notification is sent for exactly the organizations of the listing whose id
\* is not in the snapshot of the cycle's start, in listing order; the file is
\* not written before all of them were attempted, and then holds the listing.
C4_CycleEndToEnd ==
    LET IsNew(o) == o.id \notin Ids(Snapshot(file_at_start))
        expected == SelectSeq(current_orgs, IsNew)
        expected_ids == [i \in 1..Len(expected) |-> expected[i].id]
    IN  /\ pc \in {"load", "diff", "enrich", "notify", "save"}
             => file = file_at_start
        /\ (pc = "sleep" /\ faults = {})
             => /\ fetched = expected_ids
                /\ IdsOf(sent) = expected_ids
                /\ \A k \in 1..Len(sent) : sent[k].delivered
                /\ Snapshot(file) = current_orgs

\* A faultless cycle that skipped the known organization of its listing and
\* notified the new one behind it.
C4_Witness ==
    /\ pc = "sleep"
    /\ faults = {}
    /\ Len(current_orgs) = 2
    /\ current_orgs[1].id \in Ids(Snapshot(file_at_start))
    /\ IdsOf(sent) = <<current_orgs[2].id>>

\* C5: a call that returns a token without an exchange was made strictly
\* before the stored expiry.
C5_NoExpiredTokenFromCache ==
    (token_call.made /\ token_call.exchanges = 0 /\ token_call.ret # NoToken)
        => token_call.at < token_call.expiry_before

\* A token served from the cache in a later cycle.
C5_Witness ==
    /\ token_call.made
    /\ token_call.exchanges = 0
    /\ token_call.ret # NoToken
    /\ token_call.at > StartTime

\* C6: a call inside the validity window of the cached token returns that
\* very token and exchanges nothing; a call at or after the expiry makes
\* exactly one exchange.
C6_CacheHitsAndMisses ==
    token_call.made =>
        LET held == /\ token_call.cached_before # NoToken
                    /\ token_call.expiry_before # NoExpiry
        IN  /\ (held /\ token_call.at < token_call.expiry_before)
                 => /\ token_call.ret = token_call.cached_before
                    /\ token_call.exchanges = 0
                    /\ cached_token = token_call.cached_before
                    /\ token_expiry = token_call.expiry_before
            /\ (held /\ token_call.at >= token_call.expiry_before)
                 => token_call.exchanges = 1

\* A call after the expiry that brought another token than the cached one.
C6_Witness ==
    /\ token_call.made
    /\ token_call.cached_before # NoToken
    /\ token_call.at >= token_call.expiry_before
    /\ token_call.exchanges = 1
    /\ token_call.ret \notin {NoToken, token_call.cached_before}

\* C7: once a token call of the cycle has failed, the cycle hands nothing
\* more to send and does not write the snapshot file.
C7_TokenFailureAbortsCycle ==
    [][("token" \in faults /\ "token" \in faults')
          => (sent' = sent /\ file' = file)]_vars

\* C8: find_new is the subsequence of current, in current's order, of the
\* elements whose id is no id of previous; it is empty when every id of
\* current is an id of previous and holds no id of previous.
C8_FindNewIsFilter ==
    pc = "pure_diffed" =>
        LET kept == {i \in 1..Len(current_orgs) :
                        current_orgs[i].id \notin Ids(previous_orgs)}
            Nth(j) == CHOOSE i \in kept :
                          Cardinality({k \in kept : k <= i}) = j
        IN  /\ Len(new_orgs) = Cardinality(kept)
            /\ \A j \in 1..Len(new_orgs) : new_orgs[j] = current_orgs[Nth(j)]
            /\ Ids(current_orgs) \subseteq Ids(previous_orgs) => new_orgs = <<>>
            /\ Ids(new_orgs) \cap Ids(previous_orgs) = {}

\* The renamed record of a known organization is dropped, the records
\* around it are kept.
C8_Witness ==
    /\ pc = "pure_diffed"
    /\ current_orgs = <<OrgB, OrgA2>>
    /\ previous_orgs = <<OrgA>>
    /\ new_orgs = <<OrgB>>

\* C9: a load after a save returns the saved sequence, whatever the file
\* held before, and does not raise.
C9_SaveLoadRoundTrip ==
    pc \in {"pure_loaded", "pure_load_raised"}
        => pc = "pure_loaded" /\ previous_orgs = current_orgs

\* A sequence of two records saved over a malformed file and loaded back.
C9_Witness ==
    /\ pc = "pure_loaded"
    /\ Len(previous_orgs) = 2
    /\ file_at_start = <<"[", "{">>

\* C10: an error status of the member listing gives an empty member
\* sequence and raises nothing; the message with the "No members found"
\* line is handed to send, the organizations after it are processed, and
\* the loop goes on to the save.
ErrorStatus(status) == status \in {"401", "500"}

C10_MemberErrorDoesNotAbort ==
    /\ (pc = "notify" /\ ErrorStatus(member_status)) => members = <<>>
    /\ (pc \in {"enrich", "save"} /\ ErrorStatus(member_status))
         => /\ sent[Len(sent)].id = fetched[Len(fetched)]
            /\ MessageId(message) = fetched[Len(fetched)]
            /\ HasNoMembersLine(message)
            /\ MemberLines(message) = 0
    /\ pc = "notify" => Len(sent) = idx - 1 /\ Len(fetched) = idx
    /\ pc \in {"save", "sleep"} => IdsOf(sent) = IdsOf(new_orgs)
    /\ pc = "error" => faults \cap {"listing", "load", "save"} # {}

\* The member listing of the first of two new organizations answered with
\* an error status, its message is out and the loop is at the second.
C10_Witness ==
    /\ pc = "enrich"
    /\ idx = 2
    /\ member_status = "500"
    /\ Len(sent) = 1
    /\ HasNoMembersLine(message)

\* C11: profile lookups fail member by member.  For a member listing of N
\* members the enricher returns N members in listing order, with the name
\* and the email of each; a member whose lookup failed (network error or a
\* status other than 200) or whose user_id bears no "github" has no
\* profile url, every other member has the url of its own profile.
C11_LookupFailuresIsolated ==
    (pc \in {"pure_enriched", "pure_formatted"} /\ pure_in.resp.status = "200")
    => LET body == pure_in.resp.body
       IN  /\ Len(members) = Len(body)
           /\ \A i \in 1..Len(body) :
                /\ members[i].name = body[i].name
                /\ members[i].email = body[i].email
                /\ members[i].github_url =
                     IF /\ \E k \in 1..Len(body[i].user_id) :
                             body[i].user_id[k] = "github"
                        /\ pure_in.lookups[i] = "200"
                     THEN HtmlUrl(body[i].user_id[Len(body[i].user_id)])
                     ELSE NoUrl

\* Two GitHub members, the lookup of the first failed, the second has its url.
C11_Witness ==
    /\ pc = "pure_enriched"
    /\ pure_in.resp.body = <<MemberGh, MemberGh2>>
    /\ pure_in.lookups = <<"neterr", "200">>
    /\ members[1].github_url = NoUrl
    /\ members[2].github_url = HtmlUrl("7")

\* C12: send never raises.  Without a webhook url nothing is posted; after
\* a post that failed (network error or error status) or was not made, the
\* for loop goes on with the organizations that are left, the save follows,
\* and a cycle that reaches the short sleep has written the whole listing
\* as it does after a delivery.  Such a cycle fails only if the save fails.
C12_SendFailureDoesNotStopCycle ==
    /\ \A k \in 1..Len(sent) :
         /\ sent[k].posted = webhook_set
         /\ sent[k].delivered => sent[k].posted
    /\ "webhook" \in faults =>
         /\ pc \in {"enrich", "notify", "save", "sleep", "error"}
         /\ pc \in {"enrich", "notify"} => Len(sent) = idx - 1 /\ idx <= Len(new_orgs)
         /\ pc \in {"save", "sleep"} => Len(sent) = Len(new_orgs)
         /\ pc = "sleep" => file = JsonDump(current_orgs)
         /\ pc = "error" => "save" \in faults

\* The post for the first of two new organizations failed, the second was
\* delivered, and the listing was saved.
C12_Witness ==
    /\ pc = "sleep"
    /\ webhook_set
    /\ Len(sent) = 2
    /\ ~sent[1].delivered
    /\ sent[2].delivered
    /\ file = JsonDump(current_orgs)

\* C13: an interruption at any point of the loop, the long sleep after a
\* failed cycle included, ends poll_organizations by a normal return: the
\* KeyboardInterrupt never leaves the function.
C13_InterruptStopsCleanly ==
    [][pc' \in {"stopped", "interrupt_raised"} => pc' = "stopped"]_vars

\* The loop is at a sleep that would pass the end of the clock of the model.
ClockEnds ==
    \/ pc = "sleep" /\ now + SHORT_SLEEP > MaxTime
    \/ pc = "error" /\ now + LONG_SLEEP > MaxTime

\* C14: no error ends the loop.  Unless it was interrupted, the loop is at
\* the start of a fetch again and again, whatever the cycles before did:
\* reach the short sleep or fail with any error.  The clock of the model is
\* bounded, so a run of the model ends in a sleep that would pass MaxTime.
C14_LoopGoesOn ==
    []<>(pc \in {"fetch", "stopped", "interrupt_raised"} \/ ClockEnds)

\* A cycle that failed was followed by a long sleep and a new fetch.
C14_Witness ==
    /\ pc = "fetch"
    /\ slept = LONG_SLEEP
    /\ ~run.clean

Uncaught == {"listing", "load", "save"}

\* C15: a fetch that is not the first follows exactly one sleep.  The step
\* that brings the loop back to the fetch is a sleep of 60 seconds taken
\* after the save, in a cycle in which nothing was raised to the loop, or a
\* sleep of 300 seconds taken in the handler of a cycle that raised; and a
\* sleep leads nowhere but to the fetch.
C15_OneSleepBetweenFetches ==
    [][/\ (pc # "fetch" /\ pc' = "fetch") =>
            \/ /\ pc = "sleep"
               /\ faults \cap Uncaught = {}
               /\ file = JsonDump(current_orgs)
               /\ now' = now + 60
               /\ slept' = 60
            \/ /\ pc = "error"
               /\ faults \cap Uncaught # {}
               /\ now' = now + 300
               /\ slept' = 300
       /\ now' # now => \/ pc = "load" /\ pc' = "load"
                        \/ pc \in {"sleep", "error"} /\ pc' = "fetch"
      ]_vars

\* The second fetch of a run, one short sleep after a cycle that raised nothing.
C15_Witness ==
    /\ pc = "fetch"
    /\ slept = SHORT_SLEEP
    /\ now = StartTime + SHORT_SLEEP
    /\ run.clean

\* C16: a snapshot file that exists and cannot be parsed is not read as an
\* empty snapshot.  The load raises to the loop: the cycle never reaches the
\* diff, no organization is taken as new, no member listing is requested,
\* nothing is handed to send, and the file is left as it was.
C16_MalformedSnapshotFailsCycle ==
    (file_at_start # Absent /\ ~JsonLoad(file_at_start).ok) =>
        /\ pc \in {"fetch", "load", "error", "stopped", "interrupt_raised"}
        /\ previous_orgs = <<>>
        /\ new_orgs = <<>>
        /\ fetched = <<>>
        /\ sent = <<>>
        /\ file = file_at_start
        /\ pc = "error" => faults \cap {"listing", "load"} # {}

\* The listing of two organizations arrived, then the load of the malformed
\* file failed the cycle.
C16_Witness ==
    /\ pc = "error"
    /\ file_at_start = Malformed
    /\ faults = {"load"}
    /\ Len(current_orgs) = 2
    /\ file = Malformed

\* C17: after the six header lines the message holds one line per member,
\* in member order, with the member's name and email, and no "No members
\* found" line, when there is a member; it holds the "No members found"
\* line and nothing else when there is none.  A member line bears the
\* profile link, made of the member's url, iff the member has a url.
C17_MemberLines ==
    pc = "pure_formatted" =>
        LET n == Len(members)
        IN  /\ \A i \in 1..6 : message[i].kind # "member"
                                /\ message[i] # NoMembersLine
            /\ n >= 1 =>
                 /\ Len(message) = 6 + n
                 /\ \A i \in 1..n :
                      /\ message[6 + i].kind = "member"
                      /\ message[6 + i].name = members[i].name
                      /\ message[6 + i].email = members[i].email
                      /\ (message[6 + i].link # <<>>)
                            <=> (members[i].github_url # NoUrl)
                      /\ message[6 + i].link # <<>> =>
                            message[6 + i].link[2] = members[i].github_url
            /\ n = 0 => /\ Len(message) = 7
                        /\ message[7] = NoMembersLine

\* Two members, the first with a profile url and the second without.
C17_Witness ==
    /\ pc = "pure_formatted"
    /\ Len(members) = 2
    /\ members[1].github_url # NoUrl
    /\ members[2].github_url = NoUrl
    /\ message[7].link # <<>>
    /\ message[8].link = <<>>

\* C18: a liveness request can be answered wherever the poll thread is
\* (running, sleeping, failing, stopped); answering it gives the one static
\* text and leaves the cached token, its expiry, the snapshot file and the
\* position of the loop as they were; and the cached token changes only in
\* a step of the poll thread that calls get_auth0_token.
C18_IndexStandsAside ==
    /\ [](ENABLED Index)
    /\ [][/\ response' # response =>
               /\ response' = "Auth0 Organization Monitor is running"
               /\ UNCHANGED <<pc, now, cached_token, token_expiry, file>>
          /\ <<cached_token, token_expiry>>' # <<cached_token, token_expiry>> =>
               /\ pc \in {"fetch", "enrich"}
               /\ token_call'.made
               /\ response' = response
         ]_vars

\* The liveness request was answered, and the loop has failed a cycle with
\* a token in the cache.
C18_Witness ==
    /\ response = "Auth0 Organization Monitor is running"
    /\ pc = "error"
    /\ cached_token # NoToken

\* C19: in a run in which no cycle raised to the loop and no listing
\* dropped an id listed before (a clean run; ids are unique in every
\* listing of the model), no id is handed to send a second time.  In any
\* run, an id is handed to send only while the persisted snapshot does not
\* hold it: after a notification, that is the case only if the save of
\* that cycle did not happen, or if a listing without the id was persisted
\* since.
C19_NotifiedOncePerId ==
    /\ [](run.clean => ~run.twice)
    /\ [][(sent' # sent /\ sent' # <<>>) =>
             /\ pc = "notify"
             /\ sent'[Len(sent')].id = new_orgs[idx].id
             /\ new_orgs[idx].id \notin Ids(Snapshot(file))
         ]_vars

\* Both organizations were notified in earlier cycles of a clean run, both
\* are listed again, and none is new.
C19_Witness ==
    /\ pc = "save"
    /\ run.clean
    /\ run.notified = {"org_A", "org_B"}
    /\ Len(current_orgs) = 2
    /\ new_orgs = <<>>
    /\ sent = <<>>

====
